---- MODULE Spec2Model ----
(***************************************************************************)
(* Model of scraper.py: main() fills a shared Queue with page URLs, then   *)
(* runs worker() either once in the main thread (asyncio.run) or in a      *)
(* ThreadPoolExecutor, one event loop per thread.  Each worker takes a     *)
(* page, fetches and parses it, creates one fetch_story_with_comments task *)
(* per story inside an asyncio.TaskGroup, and extends all_stories once the *)
(* TaskGroup has been left.                                                *)
(*                                                                         *)
(* The second part models demos/terminal_demo.py: run_multi_threaded cuts  *)
(* demo.test_urls into chunks and has a ThreadPoolExecutor run one         *)
(* scrape_pages coroutine per chunk, then adds up the chunk totals.        *)
(***************************************************************************)
EXTENDS Integers, Sequences, FiniteSets, TLC

\* Bounds of the model (the program enqueues 100 pages and starts 8 threads).
NumPages == 3
workers == 2
MaxStories == 2
\* Bounds of the demo (main passes num_workers = 4 and the demo has 10 URLs).
MaxUrls == 5
MaxNumWorkers == 3

Pages == 1..NumPages
Workers == 1..workers
Stories == Pages \X (1..MaxStories)

VARIABLES
    multithreaded,  \* main's argument
    pc_main,        \* main's position: "put", "submit", "wait", "done", "raised"
    queue,          \* the shared Queue of page URLs (pages are numbered)
    all_stories,    \* the shared result list (story ids, in list order)
    wpc,            \* per worker: "idle", "claim", "fetch", "join", "publish", "done", "raised"
    page,           \* per worker: local variable page (0: unbound)
    stories,        \* per worker: local variable stories (<<>>: unbound or empty)
    story,          \* per story dict: "none", "primary" (id,title,link), "enriched" (+comments)
    task,           \* per story: its TaskGroup task: "none", "pending", "done", "failed",
                    \*            "cancelling", "cancelled"
    report,         \* what main printed: a record, <<>> before the summary
    getCount,       \* history: how many times queue.get returned each page
    putCount,       \* history: how many times queue.put was given each page
    parsed,         \* history: parse_stories' story count per fetched page, -1 before
    appended,       \* history: number of list elements added by all_stories.extend
    extended,       \* history: how many times each story was passed to all_stories.extend
    spawned,        \* history: how many tasks tg.create_task made for each story
    writes,         \* history: how many times story["comments"] was assigned
    fetches,        \* history: how many times fetch was called for each page
    pc_demo,        \* run_multi_threaded's position: "off", "split", "submit",
                    \*   "collect", "done", "raised"
    num_workers,    \* run_multi_threaded's argument
    test_urls,      \* demo.test_urls: per URL what its server answers (story rows, or
                    \*   an exception); a URL is known by its position
    url_chunks,     \* the list of slices of test_urls (as URL positions)
    futures,        \* per submitted chunk: [state: "queued"/"running"/"done", result]
    counts,         \* per URL: what its fetch_and_parse coroutine returned, -1 before
    results,        \* run_multi_threaded's list results
    collected,      \* how many futures the result loop has been through
    total_stories,  \* run_multi_threaded's total_stories, -1 before
    calls           \* history: how many times scrape_pages ran for each chunk

dvars == <<pc_demo, num_workers, test_urls, url_chunks, futures, counts, results,
           collected, total_stories, calls>>

svars == <<multithreaded, pc_main, queue, all_stories, wpc, page, stories,
          story, task, report, getCount, putCount, parsed, appended,
          extended, spawned, writes, fetches>>

vars == <<svars, dvars>>

wvars == <<wpc, page, stories>>
hist == <<getCount, putCount, parsed, appended, extended, spawned, writes, fetches>>

----------------------------------------------------------------------------
\* Pure helpers

RECURSIVE SumTo(_, _)
SumTo(f, n) == IF n = 0 THEN 0 ELSE f[n] + SumTo(f, n - 1)

\* What a fetch can do: return a body (any HTTP status: the status is never
\* looked at) or raise out of session.get / response.text.
FetchErrors == {"ClientError", "TimeoutError"}

\* A fetched list page: its status and the number of well-formed .athing rows.
\* A non-success response carries an error body without story rows.
Bodies == {[status |-> 200, items |-> n] : n \in 0..MaxStories}
            \cup {[status |-> 500, items |-> 0]}

\* A fetched item page, as far as parse_comments cares: any body parses to a
\* (possibly empty) list of comments.
ItemStatuses == {200, 500}

\* parse_stories: one dict per row, in document order.
parse_stories(p, html) == [i \in 1..html.items |-> <<p, i>>]

Range(s) == {s[i] : i \in 1..Len(s)}

\* The tasks of the worker's TaskGroup that are not finished yet.
Unfinished(w) == {r \in Range(stories[w]) : task[r] \in {"pending", "cancelling"}}

\* A join that swallows the tasks' exceptions (gather(return_exceptions=True)).
ErrorsIgnored(w) == {}

\* The errors the TaskGroup collected from its tasks.
Errors(w) == {r \in Range(stories[w]) : task[r] = "failed"}

\* A get that hands out the first entry and leaves it in the queue.
get_peek(q) == q

\* Queue.get(block=False) on a non-empty queue: the queue that is left.
get(q) == Tail(q)

\* Workers that main has started.
Started == {w \in Workers : wpc[w] # "idle"}
Terminated(w) == wpc[w] \in {"done", "raised"}

----------------------------------------------------------------------------
\* terminal_demo.py is a separate entry point: it is not running.
DemoOff ==
    /\ pc_demo = "off"
    /\ num_workers = 0
    /\ test_urls = <<>>
    /\ url_chunks = <<>>
    /\ futures = <<>>
    /\ counts = [u \in 1..MaxUrls |-> -1]
    /\ results = <<>>
    /\ collected = 0
    /\ total_stories = -1
    /\ calls = [c \in 1..MaxUrls |-> 0]

ScraperInit ==
    /\ multithreaded \in BOOLEAN
    /\ pc_main = "put"
    /\ queue = <<>>
    /\ all_stories = <<>>
    /\ wpc = [w \in Workers |-> "idle"]
    /\ page = [w \in Workers |-> 0]
    /\ stories = [w \in Workers |-> <<>>]
    /\ story = [r \in Stories |-> "none"]
    /\ task = [r \in Stories |-> "none"]
    /\ report = <<>>
    /\ getCount = [p \in Pages |-> 0]
    /\ putCount = [p \in Pages |-> 0]
    /\ parsed = [p \in Pages |-> -1]
    /\ appended = 0
    /\ extended = [r \in Stories |-> 0]
    /\ spawned = [r \in Stories |-> 0]
    /\ writes = [r \in Stories |-> 0]
    /\ fetches = [p \in Pages |-> 0]

Init == ScraperInit /\ DemoOff

----------------------------------------------------------------------------
\* main

\* for page in range(1, 101): queue.put(BASE_URL.format(page))
Put ==
    /\ pc_main = "put"
    /\ Len(queue) < NumPages
    /\ LET p == Len(queue) + 1 IN
         /\ queue' = Append(queue, p)
         /\ putCount' = [putCount EXCEPT ![p] = @ + 1]
    /\ UNCHANGED <<dvars, multithreaded, pc_main, all_stories, wvars, story, task,
                   report, getCount, parsed, appended, extended, spawned,
                   writes, fetches>>

\* else: asyncio.run(worker(queue, all_stories)) in the main thread
RunSingle ==
    /\ pc_main = "put"
    /\ Len(queue) = NumPages
    /\ ~multithreaded
    /\ wpc' = [wpc EXCEPT ![1] = "claim"]
    /\ pc_main' = "wait"
    /\ UNCHANGED <<dvars, multithreaded, queue, all_stories, page, stories,
                   story, task, report, hist>>

\* if multithreaded: with ThreadPoolExecutor(max_workers=workers) as executor
EnterExecutor ==
    /\ pc_main = "put"
    /\ Len(queue) = NumPages
    /\ multithreaded
    /\ pc_main' = "submit"
    /\ UNCHANGED <<dvars, multithreaded, queue, all_stories, wvars, story, task,
                   report, hist>>

\* for _ in range(workers): executor.submit(lambda: asyncio.run(worker(...)))
Submit ==
    /\ pc_main = "submit"
    /\ \E w \in Workers :
         /\ wpc[w] = "idle"
         /\ \A v \in Workers : v < w => wpc[v] # "idle"
         /\ wpc' = [wpc EXCEPT ![w] = "claim"]
         /\ pc_main' = IF w = workers THEN "wait" ELSE "submit"
    /\ UNCHANGED <<dvars, multithreaded, queue, all_stories, page, stories,
                   story, task, report, hist>>

\* A main that does not wait (shutdown(wait=False)).
WorkersNotAwaited == TRUE

\* Whether main may go past the place where it waits for the workers: the
\* executor's __exit__ (shutdown(wait=True)) or the return of asyncio.run.
WorkersFinished == \A w \in Started : Terminated(w)

\* The exception asyncio.run lets through in the main thread.  A future of
\* the executor keeps its exception; nothing asks for it.
Propagates == ~multithreaded /\ wpc[1] = "raised"

\* After the workers: the exception leaves main, or main prints the summary.
Finish ==
    /\ pc_main = "wait"
    /\ WorkersFinished
    /\ IF Propagates
         THEN /\ pc_main' = "raised"
              /\ report' = report
         ELSE /\ pc_main' = "done"
              /\ report' = [total_stories |-> Len(all_stories)]
    /\ UNCHANGED <<dvars, multithreaded, queue, all_stories, wvars, story, task, hist>>

----------------------------------------------------------------------------
\* worker

\* page = queue.get(block=False); except Empty: break
Claim(w) ==
    /\ wpc[w] = "claim"
    /\ IF queue = <<>>
         THEN /\ wpc' = [wpc EXCEPT ![w] = "done"]
              /\ UNCHANGED <<queue, page, getCount, fetches>>
         ELSE /\ page' = [page EXCEPT ![w] = Head(queue)]
              /\ queue' = get(queue)
              /\ getCount' = [getCount EXCEPT ![Head(queue)] = @ + 1]
              /\ fetches' = [fetches EXCEPT ![Head(queue)] = @ + 1]
              /\ wpc' = [wpc EXCEPT ![w] = "fetch"]
    /\ UNCHANGED <<dvars, multithreaded, pc_main, all_stories, stories, story,
                   task, report, putCount, parsed, appended, extended,
                   spawned, writes>>

\* `if stories: break`: the test inverted.
AfterParseInverted(found) == IF found # <<>> THEN "done" ELSE "join"

\* Without `if not stories: break`.
AfterParseNoBreak(found) == "join"

\* The worker's next position once parse_stories returned: `if not stories:
\* break`, else the tasks are created and the TaskGroup is left.
AfterParse(found) == IF found = <<>> THEN "done" ELSE "join"

\* A loop that creates two tasks for every story.
TasksForTwice(found) == found \o found

\* for story in stories: tg.create_task(fetch_story_with_comments(session,
\* story)): the stories a task is created for, one entry per task.
TasksFor(found) == found

\* How often r occurs in the sequence s.
Occurrences(s, r) == Cardinality({i \in 1..Len(s) : s[i] = r})

\* html = await fetch(session, page) returns html; stories =
\* parse_stories(html); if not stories: break; for story in stories:
\* tg.create_task(...)
FetchReturnsWith(w, html) ==
    /\ wpc[w] = "fetch"
    /\ LET found == parse_stories(page[w], html) IN
         /\ stories' = [stories EXCEPT ![w] = found]
         /\ parsed' = [parsed EXCEPT ![page[w]] = Len(found)]
         /\ story' = [r \in Stories |->
                        IF r \in Range(found) THEN "primary" ELSE story[r]]
         /\ task' = [r \in Stories |->
                        IF r \in Range(TasksFor(found)) THEN "pending" ELSE task[r]]
         /\ spawned' = [r \in Stories |->
                          spawned[r] + Occurrences(TasksFor(found), r)]
         /\ wpc' = [wpc EXCEPT ![w] = AfterParse(found)]
    /\ UNCHANGED <<dvars, multithreaded, pc_main, queue, all_stories, page,
                   report, getCount, putCount, appended, extended, writes,
                   fetches>>

\* The page fetch returns some body.
FetchReturns(w) == \E html \in Bodies : FetchReturnsWith(w, html)

\* An exception that ends every running worker, not only the one it left.
RaisedAbortsAll(w) ==
    [v \in Workers |->
        IF v = w \/ wpc[v] \in {"claim", "fetch", "join", "publish"}
          THEN "raised" ELSE wpc[v]]

\* An exception leaves worker(w): asyncio.run re-raises it in w's thread (the
\* executor stores it in w's future), the other workers are not touched.
Raised(w) == [wpc EXCEPT ![w] = "raised"]

\* A failed page fetch that is tried again.
FetchRaisesRetry(w) ==
    /\ wpc[w] = "fetch"
    /\ fetches' = [fetches EXCEPT ![page[w]] = @ + 1]
    /\ UNCHANGED <<dvars, multithreaded, pc_main, queue, all_stories, wvars, story,
                   task, report, getCount, putCount, parsed, appended,
                   extended, spawned, writes>>

\* html = await fetch(session, page) raises: the TaskGroup has no task, its
\* __aexit__ re-raises the error as an ExceptionGroup, which leaves worker().
FetchRaises(w) ==
    /\ wpc[w] = "fetch"
    /\ \E e \in FetchErrors :
         wpc' = Raised(w)
    /\ UNCHANGED <<dvars, multithreaded, pc_main, queue, all_stories, page, stories,
                   story, task, report, hist>>

\* fetch_story_with_comments' fetch returns a body of status s:
\* story["comments"] = parse_comments(comment_html); return story
TaskReturnsWith(w, r, s) ==
    /\ wpc[w] = "join"
    /\ r \in Range(stories[w])
    /\ task[r] = "pending"
    /\ s \in ItemStatuses
    /\ story' = [story EXCEPT ![r] = "enriched"]
    /\ writes' = [writes EXCEPT ![r] = @ + 1]
    /\ task' = [task EXCEPT ![r] = "done"]
    /\ UNCHANGED <<dvars, multithreaded, pc_main, queue, all_stories, wvars, report,
                   getCount, putCount, parsed, appended, extended, spawned,
                   fetches>>

\* fetch_story_with_comments returns.
TaskReturns(w, r) == \E s \in ItemStatuses : TaskReturnsWith(w, r, s)

\* The tasks once r's task raised: the TaskGroup keeps the error and cancels
\* its other tasks that are not finished.
AfterTaskError(w, r) ==
    [q \in Stories |->
        IF q = r THEN "failed"
        ELSE IF q \in Range(stories[w]) /\ task[q] = "pending"
               THEN "cancelling"
               ELSE task[q]]

\* fetch_story_with_comments raises in its fetch: the TaskGroup records the
\* error and cancels every task that is not finished.
TaskRaises(w, r) ==
    /\ wpc[w] = "join"
    /\ r \in Range(stories[w])
    /\ task[r] = "pending"
    /\ \E e \in FetchErrors :
         task' = AfterTaskError(w, r)
    /\ UNCHANGED <<dvars, multithreaded, pc_main, queue, all_stories, wpc, page,
                   stories, story, report, hist>>

\* A cancelled task ends with CancelledError at its await.
TaskCancelled(w, r) ==
    /\ wpc[w] = "join"
    /\ r \in Range(stories[w])
    /\ task[r] = "cancelling"
    /\ task' = [task EXCEPT ![r] = "cancelled"]
    /\ UNCHANGED <<dvars, multithreaded, pc_main, queue, all_stories, wvars, story,
                   report, hist>>

\* Tasks created with no TaskGroup to wait for them.
AwaitedNone(w) == {}

\* What TaskGroup.__aexit__ still waits for.
Awaited(w) == Unfinished(w)

\* A worker that goes back to queue.get without extending all_stories.
AfterJoinNoPublish(w) == "claim"

\* Where the worker goes when the TaskGroup returned: line 114.
AfterJoin(w) == "publish"

\* TaskGroup.__aexit__ ends: it raises the collected errors, or returns.
JoinExit(w) ==
    /\ wpc[w] = "join"
    /\ Awaited(w) = {}
    /\ wpc' = IF Errors(w) # {} THEN Raised(w)
                                ELSE [wpc EXCEPT ![w] = AfterJoin(w)]
    /\ UNCHANGED <<dvars, multithreaded, pc_main, queue, all_stories, page, stories,
                   story, task, report, hist>>

\* An assignment in place of the extend: all_stories = stories.
extend_overwrite(list, items) == items

\* An extend that adds the items last to first.
extend_reversed(list, items) ==
    list \o [i \in 1..Len(items) |-> items[Len(items) + 1 - i]]

\* An append of the first item in place of the extend.
extend_first(list, items) == list \o SubSeq(items, 1, 1)

\* list.extend(items): the list afterwards (one atomic list operation, with
\* the GIL and in the free-threaded build).
extend(list, items) == list \o items

\* all_stories.extend(stories)
Publish(w) ==
    /\ wpc[w] = "publish"
    /\ all_stories' = extend(all_stories, stories[w])
    /\ appended' = appended + Len(stories[w])
    /\ extended' = [r \in Stories |-> extended[r] + Occurrences(stories[w], r)]
    /\ wpc' = [wpc EXCEPT ![w] = "claim"]
    /\ UNCHANGED <<dvars, multithreaded, pc_main, queue, page, stories, story,
                   task, report, getCount, putCount, parsed, spawned, writes,
                   fetches>>

----------------------------------------------------------------------------
Next ==
    \/ Put
    \/ RunSingle
    \/ EnterExecutor
    \/ Submit
    \/ Finish
    \/ \E w \in Workers : Claim(w)
    \/ \E w \in Workers : FetchReturns(w)
    \/ \E w \in Workers : FetchRaises(w)
    \/ \E w \in Workers, r \in Stories : TaskReturns(w, r)
    \/ \E w \in Workers, r \in Stories : TaskRaises(w, r)
    \/ \E w \in Workers, r \in Stories : TaskCancelled(w, r)
    \/ \E w \in Workers : JoinExit(w)
    \/ \E w \in Workers : Publish(w)

Spec == Init /\ [][Next]_vars

\* Every fetch returns or raises (timeout=100), tasks and threads are
\* scheduled, and main runs: no enabled step is postponed forever.
FairSpec == Spec /\ WF_vars(Next)

----------------------------------------------------------------------------
\* demos/terminal_demo.py: run_multi_threaded

Min(a, b) == IF a < b THEN a ELSE b

RECURSIVE SumSeq(_)
SumSeq(q) == IF q = <<>> THEN 0 ELSE Head(q) + SumSeq(Tail(q))

\* What a URL's server can answer: a page with some story rows, or the fetch
\* or the parse raises.
Answers == {[raises |-> FALSE, items |-> n] : n \in 0..MaxStories}
            \cup {[raises |-> TRUE, items |-> 0]}

\* range(start, stop, step) for step > 0, as a sequence.
range(start, stop, step) ==
    [j \in 1..((stop - start + step - 1) \div step) |-> start + (j - 1) * step]

\* list[a:b], as the sequence of the positions (from 1) it takes from a list
\* of n elements.
slice(n, a, b) == [j \in 1..(Min(b, n) - a) |-> a + j]

\* len(demo.test_urls) // num_workers
urls_per_worker == Len(test_urls) \div num_workers

\* fetch_and_parse: the story count of the page, 0 when anything raised.
fetch_and_parse(answer) == IF answer.raises THEN 0 ELSE answer.items

\* The arguments run_multi_threaded is called with.
DemoInit ==
    /\ ScraperInit
    /\ multithreaded = FALSE
    /\ pc_demo = "split"
    /\ num_workers \in 1..MaxNumWorkers
    /\ \E n \in 0..MaxUrls : test_urls \in [1..n -> Answers]
    /\ url_chunks = <<>>
    /\ futures = <<>>
    /\ counts = [u \in 1..MaxUrls |-> -1]
    /\ results = <<>>
    /\ collected = 0
    /\ total_stories = -1
    /\ calls = [c \in 1..MaxUrls |-> 0]

\* url_chunks = [test_urls[i:i + urls_per_worker] for i in range(0, len, urls_per_worker)]
\* and results = [0] * len(url_chunks); range() raises ValueError for step 0.
Split ==
    /\ pc_demo = "split"
    /\ IF urls_per_worker = 0
         THEN /\ pc_demo' = "raised"
              /\ UNCHANGED <<url_chunks, results>>
         ELSE LET starts == range(0, Len(test_urls), urls_per_worker) IN
              /\ url_chunks' = [c \in 1..Len(starts) |->
                                  slice(Len(test_urls), starts[c], starts[c] + urls_per_worker)]
              /\ results' = [c \in 1..Len(starts) |-> 0]
              /\ pc_demo' = "submit"
    /\ UNCHANGED <<svars, num_workers, test_urls, futures, counts, collected,
                   total_stories, calls>>

\* executor.submit(asyncio.run, demo.scrape_pages(chunk, i)), chunk after chunk.
SubmitChunk ==
    /\ pc_demo = "submit"
    /\ futures' = Append(futures, [state |-> "queued", result |-> 0])
    /\ pc_demo' = IF Len(futures') = Len(url_chunks) THEN "collect" ELSE "submit"
    /\ UNCHANGED <<svars, num_workers, test_urls, url_chunks, counts, results,
                   collected, total_stories, calls>>

\* A free thread of the pool takes the oldest queued work item and starts
\* asyncio.run on the chunk's scrape_pages coroutine.
ThreadStarts(c) ==
    /\ c \in 1..Len(futures)
    /\ futures[c].state = "queued"
    /\ \A b \in 1..(c - 1) : futures[b].state # "queued"
    /\ Cardinality({b \in 1..Len(futures) : futures[b].state = "running"}) < num_workers
    /\ futures' = [futures EXCEPT ![c].state = "running"]
    /\ calls' = [calls EXCEPT ![c] = @ + 1]
    /\ UNCHANGED <<svars, pc_demo, num_workers, test_urls, url_chunks, counts,
                   results, collected, total_stories>>

\* One fetch_and_parse coroutine of the chunk's gather returns.
FetchAndParse(c, j) ==
    /\ c \in 1..Len(futures)
    /\ futures[c].state = "running"
    /\ j \in 1..Len(url_chunks[c])
    /\ counts[url_chunks[c][j]] = -1
    /\ counts' = [counts EXCEPT
                    ![url_chunks[c][j]] = fetch_and_parse(test_urls[url_chunks[c][j]])]
    /\ UNCHANGED <<svars, pc_demo, num_workers, test_urls, url_chunks, futures,
                   results, collected, total_stories, calls>>

\* gather has every result: scrape_pages returns their sum, asyncio.run
\* returns it and the future is done.
ScrapePagesReturns(c) ==
    /\ c \in 1..Len(futures)
    /\ futures[c].state = "running"
    /\ \A j \in 1..Len(url_chunks[c]) : counts[url_chunks[c][j]] >= 0
    /\ futures' = [futures EXCEPT
                     ![c] = [state |-> "done",
                             result |-> SumSeq([j \in 1..Len(url_chunks[c]) |->
                                                  counts[url_chunks[c][j]]])]]
    /\ UNCHANGED <<svars, pc_demo, num_workers, test_urls, url_chunks, counts,
                   results, collected, total_stories, calls>>

\* for future in futures: results[worker_id] = future.result()
Collect ==
    /\ pc_demo = "collect"
    /\ collected < Len(futures)
    /\ futures[collected + 1].state = "done"
    /\ results' = [results EXCEPT ![collected + 1] = futures[collected + 1].result]
    /\ collected' = collected + 1
    /\ UNCHANGED <<svars, pc_demo, num_workers, test_urls, url_chunks, futures,
                   counts, total_stories, calls>>

\* total_stories = sum(results)
Total ==
    /\ pc_demo = "collect"
    /\ collected = Len(futures)
    /\ total_stories' = SumSeq(results)
    /\ pc_demo' = "done"
    /\ UNCHANGED <<svars, num_workers, test_urls, url_chunks, futures, counts,
                   results, collected, calls>>

DemoNext ==
    \/ Split
    \/ SubmitChunk
    \/ \E c \in 1..MaxUrls : ThreadStarts(c)
    \/ \E c, j \in 1..MaxUrls : FetchAndParse(c, j)
    \/ \E c \in 1..MaxUrls : ScrapePagesReturns(c)
    \/ Collect
    \/ Total

DemoSpec == DemoInit /\ [][DemoNext]_vars

----------------------------------------------------------------------------
\* Definitions the properties use

\* How often page p is in the queue.
InQueue(p) == Cardinality({i \in 1..Len(queue) : queue[i] = p})

\* The worker left its loop at `if not stories: break`.
StoppedOnEmptyPage(w) == wpc[w] = "done" /\ page[w] # 0 /\ stories[w] = <<>>

\* The worker left its loop at `except Empty: break`.
StoppedOnEmptyQueue(w) == wpc[w] = "done" /\ ~StoppedOnEmptyPage(w)

\* worker() was left by the exception of a page fetch (not of a task).
StoppedOnFetchError(w) == wpc[w] = "raised" /\ Errors(w) = {}

\* The failures of the run so far, counted as the specification counts them.
ErrorsOccurred ==
    Cardinality({w \in Workers : StoppedOnFetchError(w) \/ StoppedOnEmptyPage(w)})
      + Cardinality({r \in Stories : task[r] = "failed"})

\* Nothing has gone wrong so far: no fetch raised and no page was empty.
Healthy ==
    /\ \A w \in Workers : wpc[w] # "raised"
    /\ \A p \in Pages : parsed[p] # 0
    /\ \A r \in Stories : task[r] \notin {"failed", "cancelling", "cancelled"}

\* The first page that parsed to no story, NumPages + 1 if there is none.
FirstEmpty ==
    IF \E p \in Pages : parsed[p] = 0
      THEN CHOOSE p \in Pages : parsed[p] = 0 /\ \A q \in 1..(p - 1) : parsed[q] # 0
      ELSE NumPages + 1

\* The stories of pages 1..n, page by page, as parse_stories listed them.
RECURSIVE StoriesUpTo(_)
StoriesUpTo(n) ==
    IF n = 0 THEN <<>>
    ELSE StoriesUpTo(n - 1) \o [i \in 1..parsed[n] |-> <<n, i>>]

----------------------------------------------------------------------------
\* Properties

\* C1 (join barrier): no story of a page is in all_stories while a task
\* created for a story of that page is still unfinished.
C1_JoinBarrier ==
    \A i \in 1..Len(all_stories) : \A q \in Stories :
        q[1] = all_stories[i][1] => task[q] \notin {"pending", "cancelling"}

\* A page with two stories is published while the other thread's tasks run.
C1_Witness ==
    /\ multithreaded
    /\ \E i \in 1..Len(all_stories) : all_stories[i][2] = 2
    /\ \E r \in Stories : task[r] = "pending"

\* C2 (partial-result integrity): a story whose comment fetch failed is in
\* all_stories, with its primary fields only, once its worker has ended.
C2_PartialResult ==
    \A w \in Workers : \A r \in Range(stories[w]) :
        (Terminated(w) /\ task[r] = "failed")
            => (r \in Range(all_stories) /\ story[r] = "primary")

\* C3 (no double delivery): queue.get returns every page at most once, never
\* more entries than were put, and the queue does not grow once main has
\* filled it.
C3_NoDoubleDelivery ==
    /\ [](/\ \A p \in Pages : getCount[p] <= 1
          /\ SumTo(getCount, NumPages) <= SumTo(putCount, NumPages))
    /\ [][pc_main # "put" => Len(queue') <= Len(queue)]_vars

\* Both threads hold a page and the queue has been emptied.
C3_Witness ==
    /\ multithreaded
    /\ page[1] # 0 /\ page[2] # 0
    /\ queue = <<>>

\* C4 as stated (exactly-once delivery): when main has finished, every page
\* that was put has been taken.
C4_AllDequeued ==
    pc_main = "done" => \A p \in Pages : getCount[p] = putCount[p]

\* C4 amended: when main has finished, every page was taken at most once and
\* is either taken or still in the queue; all pages have been taken if a
\* worker ran until the queue was empty.
C4_TakenOrLeft ==
    pc_main \in {"done", "raised"} =>
        /\ \A p \in Pages : getCount[p] <= 1 /\ putCount[p] = getCount[p] + InQueue(p)
        /\ (\E w \in Workers : StoppedOnEmptyQueue(w))
              => \A p \in Pages : getCount[p] = putCount[p]

\* main has finished, pages are left in the queue, a page was published.
C4_Witness ==
    /\ pc_main = "done"
    /\ queue # <<>>
    /\ all_stories # <<>>
    /\ \E w \in Workers : StoppedOnEmptyPage(w)

\* C5 (termination): the run can only stop at main's summary, with every
\* started worker ended.
C5_Termination ==
    (pc_main = "done" /\ \A w \in Started : Terminated(w)) \/ ENABLED Next

\* C6 (count conservation, records): the total main prints is the number of
\* stories the workers have appended to all_stories.
C6_RecordCount ==
    pc_main = "done" => report.total_stories = appended

\* main has printed a total of at least two stories appended by two threads.
C6_Witness ==
    /\ pc_main = "done"
    /\ multithreaded
    /\ report.total_stories >= 2
    /\ \A w \in Workers : w <= 2 => page[w] # 0 /\ stories[w] # <<>>

\* C7 (count conservation, errors): main's summary holds an error total, the
\* number of workers ended by a failed or empty page plus the failed tasks.
C7_ErrorCount ==
    pc_main = "done" =>
        /\ "total_errors" \in DOMAIN report
        /\ report.total_errors = ErrorsOccurred

\* C8 (full drain on healthy input): with several workers, unless a fetch
\* fails or a page is empty, the run ends with every page taken once and
\* all_stories as long as the pages' story counts together.
C8_FullDrain ==
    <>(\/ ~multithreaded
       \/ ~Healthy
       \/ /\ pc_main = "done"
          /\ \A p \in Pages : getCount[p] = 1
          /\ Len(all_stories) = SumTo(parsed, NumPages)
          /\ report.total_stories = Len(all_stories))

\* A healthy multithreaded run has ended, both threads having published.
C8_Witness ==
    /\ multithreaded
    /\ Healthy
    /\ pc_main = "done"
    /\ \A p \in Pages : getCount[p] = 1
    /\ Len(all_stories) > NumPages
    /\ \A w \in Workers : w <= 2 => page[w] # 0

C10_NoAbort == pc_main # "raised"

\* One step of worker w (of its coroutine or of one of its tasks).
WorkerStep(w) ==
    \/ Claim(w)
    \/ FetchReturns(w)
    \/ FetchRaises(w)
    \/ \E r \in Stories : TaskReturns(w, r) \/ TaskRaises(w, r) \/ TaskCancelled(w, r)
    \/ JoinExit(w)
    \/ Publish(w)

\* The step ends worker w by a stop condition of w itself: the queue is
\* empty, its page fetch raised, its page is empty, or one of its tasks raised.
OwnStop(w) ==
    \/ wpc[w] = "claim" /\ queue = <<>> /\ wpc'[w] = "done"
    \/ wpc[w] = "fetch" /\ wpc'[w] = "raised"
    \/ wpc[w] = "fetch" /\ wpc'[w] = "done" /\ stories'[w] = <<>>
    \/ wpc[w] = "join" /\ Errors(w) # {} /\ Unfinished(w) = {} /\ wpc'[w] = "raised"

\* C11 (no cross-worker cancellation): a started worker that has not ended
\* can always take a step, whatever the other workers did; a worker ends
\* only by its own stop condition, and a task is cancelled only when a task
\* of the same worker raised.
C11_NoCrossWorkerCancellation ==
    /\ [](\A w \in Started : ~Terminated(w) => ENABLED WorkerStep(w))
    /\ [][/\ \A w \in Workers :
                (wpc'[w] # wpc[w] /\ Terminated(w)') => OwnStop(w)
          /\ \A r \in Stories :
                (task'[r] = "cancelling" /\ task[r] # "cancelling") =>
                    \E w \in Workers : \E q \in Range(stories[w]) :
                        /\ r \in Range(stories[w])
                        /\ task[q] = "pending" /\ task'[q] = "failed"]_vars

\* Worker 1 raised on page 1; worker 2 went on to page 3 and published it.
C11_Witness ==
    /\ multithreaded
    /\ wpc[1] = "raised" /\ page[1] = 1
    /\ page[2] = 3
    /\ \E i \in 1..Len(all_stories) : all_stories[i][1] = 3

\* C12 (atomic append): all_stories holds every story exactly as often as it
\* was passed to extend, and is as long as the extends together: no append of
\* a worker is lost or doubled, also when both threads extend.
C12_AtomicAppend ==
    /\ \A r \in Stories : Occurrences(all_stories, r) = extended[r]
    /\ Len(all_stories) = appended
    /\ Len(all_stories) = SumTo([n \in 1..NumPages |->
                                   SumTo([i \in 1..MaxStories |-> extended[<<n, i>>]],
                                         MaxStories)], NumPages)

\* Both threads have extended all_stories and the run is over.
C12_Witness ==
    /\ multithreaded
    /\ pc_main = "done"
    /\ page[1] # page[2]
    /\ stories[1] # <<>> /\ Range(stories[1]) \subseteq Range(all_stories)
    /\ stories[2] # <<>> /\ Range(stories[2]) \subseteq Range(all_stories)

\* C13 (stop rule): a worker whose page parsed to no story has left its
\* loop; a worker that stopped on an empty page or on a raising page fetch
\* stays where it is, takes no further page, and no story of that page is
\* ever in all_stories, whatever the queue still holds.
C13_StopRule ==
    /\ [](\A w \in Workers :
            (page[w] # 0 /\ parsed[page[w]] = 0) => StoppedOnEmptyPage(w))
    /\ [][\A w \in Workers :
            (StoppedOnEmptyPage(w) \/ StoppedOnFetchError(w)) =>
                /\ wpc'[w] = wpc[w]
                /\ page'[w] = page[w]
                /\ \A i \in 1..Len(all_stories') : all_stories'[i][1] # page[w]]_vars

\* One worker stopped on an empty page, the other on a raising fetch, and
\* the run ended with a page left in the queue.
C13_Witness ==
    /\ pc_main = "done"
    /\ StoppedOnEmptyPage(1)
    /\ StoppedOnFetchError(2) /\ page[2] # 0
    /\ queue # <<>>

\* C14 (sibling isolation): when a task of a page raised, no sibling task is
\* cancelled and the worker is not left by an exception: the join ends
\* normally and the page is published.
C14_SiblingIsolation ==
    \A w \in Workers : \A r \in Range(stories[w]) :
        task[r] = "failed" =>
            /\ \A q \in Range(stories[w]) : task[q] \notin {"cancelling", "cancelled"}
            /\ wpc[w] # "raised"
            /\ Terminated(w) => Range(stories[w]) \subseteq Range(all_stories)

\* C15 (one page in flight per worker): a worker takes its next page only
\* when every task of its current page has finished and the stories of that
\* page are in all_stories; it fetches one page at a time.
C15_OnePageInFlight ==
    [][\A w \in Workers :
          page'[w] # page[w] =>
              /\ wpc[w] = "claim" /\ wpc'[w] = "fetch"
              /\ page[w] # 0 =>
                    /\ stories[w] # <<>>
                    /\ \A r \in Range(stories[w]) : task[r] = "done"
                    /\ Range(stories[w]) \subseteq Range(all_stories)]_vars

\* A worker holds its second page, the first one being published.
C15_Witness ==
    \E w \in Workers :
        /\ page[w] = 2 /\ wpc[w] = "fetch"
        /\ \E i \in 1..Len(all_stories) : all_stories[i] = <<1, 2>>

\* The body of a non-success response (no story rows, no comment rows).
ErrorBody == [status |-> 500, items |-> 0]

\* C16 (uniform fetch failure): a fetch that ends with a non-success status
\* leaves the worker, the stories, the tasks and all_stories as a fetch that
\* ends with a transport error or a timeout does, for a page and for a story.
C16_UniformFailure ==
    [][\A w \in Workers :
          /\ FetchReturnsWith(w, ErrorBody) =>
                /\ wpc' = Raised(w)
                /\ UNCHANGED <<stories, story, task, all_stories>>
          /\ \A r \in Stories :
                TaskReturnsWith(w, r, 500) =>
                    /\ task' = AfterTaskError(w, r)
                    /\ UNCHANGED <<wpc, stories, story, all_stories>>]_vars

\* C17 (exclusive record ownership): a parsed story has exactly one task, its
\* "comments" are assigned at most once and only by that task having
\* returned, and no two workers hold the same story.
C17_ExclusiveOwnership ==
    /\ \A r \in Stories :
          /\ spawned[r] = IF story[r] = "none" THEN 0 ELSE 1
          /\ writes[r] <= 1
          /\ writes[r] = 1 <=> task[r] = "done"
          /\ story[r] = "enriched" <=> writes[r] = 1
    /\ \A w, v \in Workers :
          w # v => Range(stories[w]) \cap Range(stories[v]) = {}

\* Both threads wait for the tasks of a two-story page, one story written.
C17_Witness ==
    /\ wpc[1] = "join" /\ Len(stories[1]) = 2
    /\ wpc[2] = "join" /\ Len(stories[2]) = 2
    /\ \E r \in Range(stories[1]) : writes[r] = 1
    /\ \E r \in Range(stories[2]) : task[r] = "pending"

\* C18 (no retry): fetch is called at most once for a page and at most one
\* task (one fetch) is made for a story; once main has filled the queue no
\* page is put (back) into it; a finished task and a worker left by an
\* exception stay as they are.
C18_NoRetry ==
    /\ [](/\ \A p \in Pages : fetches[p] <= 1 /\ putCount[p] <= 1
          /\ \A r \in Stories : spawned[r] <= 1)
    /\ [][/\ pc_main # "put" => (queue' = queue \/ (queue # <<>> /\ queue' = Tail(queue)))
          /\ pc_main # "put" => putCount' = putCount
          /\ \A r \in Stories :
                task[r] \in {"done", "failed", "cancelled"} => task'[r] = task[r]
          /\ \A w \in Workers : wpc[w] = "raised" => wpc'[w] = "raised"]_vars

\* A page fetch and a story fetch have failed, each after one attempt, and
\* the run is over.
C18_Witness ==
    /\ pc_main = "done"
    /\ \E w \in Workers : StoppedOnFetchError(w) /\ page[w] # 0 /\ fetches[page[w]] = 1
    /\ \E r \in Stories : task[r] = "failed" /\ spawned[r] = 1

\* C19 (within-page order): two stories of the same page are in all_stories
\* in the order in which parse_stories listed them, in whatever order their
\* tasks finished.
C19_WithinPageOrder ==
    \A i, j \in 1..Len(all_stories) :
        (i < j /\ all_stories[i][1] = all_stories[j][1])
            => all_stories[i][2] < all_stories[j][2]

\* Two two-story pages, published by two threads, are in all_stories.
C19_Witness ==
    /\ multithreaded
    /\ Len(all_stories) >= 4
    /\ \E i \in 1..Len(all_stories) : all_stories[i][2] = 2 /\ page[1] = all_stories[i][1]
    /\ \E i \in 1..Len(all_stories) : all_stories[i][2] = 2 /\ page[2] = all_stories[i][1]

\* C20 (driver waits for all workers): when main has read all_stories for
\* its summary, every worker it was to launch has been launched and has
\* ended, and all_stories does not change any more.
C20_DriverWaits ==
    /\ [](pc_main = "done" =>
            /\ Started = IF multithreaded THEN Workers ELSE {1}
            /\ \A w \in Started : wpc[w] \in {"done", "raised"})
    /\ [][pc_main = "done" => all_stories' = all_stories]_vars

\* The summary is printed after one thread raised and the other published.
C20_Witness ==
    /\ pc_main = "done"
    /\ multithreaded
    /\ wpc[1] = "raised"
    /\ wpc[2] = "done"
    /\ report.total_stories > 0

\* The stories parse_stories made from page p.
StoriesOf(p) == {r \in Stories : r[1] = p /\ story[r] # "none"}

\* The pages that were taken from the queue and have no story in all_stories.
Unpublished ==
    {p \in Pages : getCount[p] > 0 /\ \A i \in 1..Len(all_stories) : all_stories[i][1] # p}

\* C21 (growth bound): all_stories is empty at the start, never gets
\* shorter, and is never longer than the story counts of the pages taken
\* from the queue so far, added up.
C21_GrowthBound ==
    /\ all_stories = <<>>
    /\ [](Len(all_stories) <=
            SumTo([p \in Pages |-> IF getCount[p] > 0 /\ parsed[p] > 0
                                     THEN parsed[p] ELSE 0], NumPages))
    /\ [][Len(all_stories') >= Len(all_stories)]_vars

\* The run is over with stories published and with the stories of a page
\* whose task raised missing.
C21_Witness ==
    /\ pc_main = "done"
    /\ Len(all_stories) >= 2
    /\ Len(all_stories) < SumTo([p \in Pages |-> IF parsed[p] > 0 THEN parsed[p] ELSE 0],
                                NumPages)

\* C22 (all-or-nothing): of the stories of one page either all are in
\* all_stories or none; none is when a task of the page raised or was
\* cancelled.
C22_AllOrNothing ==
    \A p \in Pages :
        /\ \/ StoriesOf(p) \cap Range(all_stories) = {}
           \/ StoriesOf(p) \subseteq Range(all_stories)
        /\ (\E r \in StoriesOf(p) : task[r] \in {"failed", "cancelling", "cancelled"})
              => StoriesOf(p) \cap Range(all_stories) = {}

\* One two-story page is published whole, another one lost a task and is
\* absent whole, its other story enriched.
C22_Witness ==
    \E p, q \in Pages :
        /\ Cardinality(StoriesOf(p)) = 2 /\ StoriesOf(p) \subseteq Range(all_stories)
        /\ Cardinality(StoriesOf(q)) = 2
        /\ \E r, t \in StoriesOf(q) : task[r] = "failed" /\ story[t] = "enriched"
        /\ \A w \in Started : Terminated(w)

\* C23 (only enriched stories are published): every story in all_stories got
\* its "comments" from its own task, which returned, before it was appended.
C23_OnlyEnriched ==
    \A i \in 1..Len(all_stories) :
        /\ story[all_stories[i]] = "enriched"
        /\ task[all_stories[i]] = "done"
        /\ writes[all_stories[i]] = 1

\* Stories are published while a task of the other thread has raised.
C23_Witness ==
    /\ all_stories # <<>>
    /\ \E r \in Stories : task[r] = "failed"
    /\ \E w \in Workers : wpc[w] = "publish"

\* C24 (bounded waste): there are never more pages taken and not published
\* than workers started, a worker that has ended left at most one such page,
\* and the queue is non-empty at the end only if every worker stopped on an
\* empty page or was left by an exception.
C24_BoundedWaste ==
    /\ Cardinality(Unpublished) <= Cardinality(Started)
    /\ Cardinality(Started) <= IF multithreaded THEN workers ELSE 1
    /\ \A p \in Unpublished : \E w \in Started : page[w] = p
    /\ (pc_main \in {"done", "raised"} /\ queue # <<>>) =>
          \A w \in Started : StoppedOnEmptyPage(w) \/ wpc[w] = "raised"

\* Both threads stopped on a page they did not publish; a page is left.
C24_Witness ==
    /\ pc_main = "done"
    /\ multithreaded
    /\ queue # <<>>
    /\ Cardinality(Unpublished) = 2

\* The chunk positions that hold URL u.
ChunksOf(u) ==
    {cj \in (1..Len(url_chunks)) \X (1..MaxUrls) :
        cj[2] <= Len(url_chunks[cj[1]]) /\ url_chunks[cj[1]][cj[2]] = u}

\* The split has been done: the chunks exist.
DemoSplitDone == pc_demo \in {"submit", "collect", "done"}

\* Every URL is in exactly one chunk.
DemoChunksPartition ==
    DemoSplitDone => \A u \in 1..Len(test_urls) : Cardinality(ChunksOf(u)) = 1

\* Every chunk is scraped by one scrape_pages call, none by two.
DemoChunksScrapedOnce ==
    /\ \A c \in 1..MaxUrls : calls[c] <= 1
    /\ pc_demo = "done" => \A c \in 1..Len(url_chunks) : calls[c] = 1

\* A URL that raises counts 0, every other URL counts its own stories.
DemoUrlIsolation ==
    \A u \in 1..Len(test_urls) :
        counts[u] >= 0 => counts[u] = IF test_urls[u].raises THEN 0 ELSE test_urls[u].items

\* The total is the sum of the story counts of the URLs.
DemoTotalIsSum ==
    pc_demo = "done" =>
        total_stories = SumSeq([u \in 1..Len(test_urls) |->
                                  IF test_urls[u].raises THEN 0 ELSE test_urls[u].items])

\* C25 (terminal demo partitioning): for every num_workers >= 1 and every URL
\* list run_multi_threaded makes its chunks (it does not raise), every URL is
\* in exactly one chunk, every chunk is scraped by exactly one scrape_pages
\* call, a URL that raises counts 0 and leaves the others alone, and the
\* total is the sum of the URLs' story counts.
C25_DemoPartitioning ==
    /\ pc_demo # "raised"
    /\ DemoChunksPartition
    /\ DemoChunksScrapedOnce
    /\ DemoUrlIsolation
    /\ DemoTotalIsSum

\* Where the split works the rest of C25 is true: more chunks than threads,
\* chunks of unequal length and a raising URL included.
DemoPartitioningAfterSplit ==
    /\ DemoChunksPartition
    /\ DemoChunksScrapedOnce
    /\ DemoUrlIsolation
    /\ DemoTotalIsSum

DemoUnevenDone ==
    /\ pc_demo = "done"
    /\ Len(url_chunks) > num_workers
    /\ \E c \in 1..Len(url_chunks) : Len(url_chunks[c]) < Len(url_chunks[1])
    /\ \E u \in 1..Len(test_urls) : test_urls[u].raises
    /\ total_stories > 0

====
